---- MODULE Spec2Model ----
(***************************************************************************)
(* Camera session lifecycle of the QRScanner component                     *)
(* (src/src/components/QRScanner.tsx, lines 1-302).                        *)
(*                                                                         *)
(* The component's useState cells and refs are the variables.  One action  *)
(* is one run of a handler, an effect or an async continuation between two *)
(* suspension points (JavaScript runs each of them to completion).         *)
(*                                                                         *)
(* ScannerService and CameraManager come from the external package         *)
(* qr-scanner-library.  Only what the component does with them is fixed by *)
(* this repository, so what they answer is a nondeterministic choice:      *)
(* a constructor may throw, an acquisition may resolve or reject, and a    *)
(* session that was stopped while its acquisition was in flight may or may *)
(* not release the stream it obtained afterwards.                          *)
(*                                                                         *)
(* Specifications:                                                         *)
(*   Spec      the component with every handler callable at any time       *)
(*   SpecUI    the component behind its rendered controls, with fairness   *)
(*   SpecAsync Spec on a library whose stop() releases asynchronously      *)
(*   SpecLog   the logging module remoteLog.ts (src/unnamed/part_002)      *)
(*   SpecServer the /log middleware of the dev server (src/vite.config.ts) *)
(* The component's specifications leave the logging module and the server  *)
(* at rest; SpecLog and SpecServer leave the component as mounted.         *)
(***************************************************************************)
EXTENDS Naturals, Sequences, FiniteSets

\* ---------------------------------------------------------------- bounds
\* Number of ScannerService instances one run may construct.
MaxSessions == 2

\* ---------------------------------------------------------------- values
\* JavaScript null for the string|null cells and for the session ref.
None == "null"
NoSession == 0
\* A parameter that was not passed (deviceIdOverride?: string).
Undefined == "undefined"

\* Device ids the caller can name.
DeviceIds == {"cam1", "cam9"}

Dev(i, l) == [deviceId |-> i, label |-> l]

\* What CameraManager.listDevices() may resolve to: nothing, one device
\* without a label (no permission yet; cam9 is not in this catalog), two
\* devices with their labels, and what is left of the two when cam1 has
\* been unplugged.
Catalogs ==
  { <<>>,
    << Dev("cam1", "") >>,
    << Dev("cam1", "Front"), Dev("cam9", "Back") >>,
    << Dev("cam9", "Back") >> }

ScanResults == {"qrA"}

ErrNoVideo  == "Video element reference is not available."
ErrNoDevice == "No camera device available or selected."
ErrList     == "Failed to list cameras"
ErrStart    == "initializing or starting ScannerService failed"
ErrDecode   == "decode error"

VARIABLES
  devices,            \* useState<MediaDeviceInfo[]>
  selectedDeviceId,   \* useState<string>
  isScanning,         \* useState<boolean>
  isLoadingCameras,   \* useState<boolean>
  scanResult,         \* useState<string|null>
  error,              \* useState<string|null>
  scannerServiceRef,  \* useRef<ScannerService|null>: index into sessions
  hasAutoStartedRef,  \* useRef<boolean>
  cancelled,          \* the mount effect's flag, set by its cleanup
  primePc,            \* where primeAndList is suspended
  tmp,                \* the stream primeAndList acquires to unlock labels
  sessions,           \* every ScannerService constructed so far
  optionsDeviceId,    \* options.deviceId of the latest ScannerOptions built
  lastCall,           \* history: the handler call of the latest step
  autoStarts,         \* history: number of automatic starts issued
  asyncRelease,       \* whether ScannerService.stop() releases later
  sessionStorage,     \* sessionStorage's item 'clientId'
  CLIENT_ID,          \* remoteLog.ts: const CLIENT_ID of the current page
  loads,              \* history: page loads of this browsing session
  idsCreated,         \* history: client ids generated in this session
  records,            \* history: one entry per remoteLog call
  requests            \* vite.config.ts: the requests the /log middleware got

vars == << devices, selectedDeviceId, isScanning, isLoadingCameras,
           scanResult, error, scannerServiceRef, hasAutoStartedRef,
           cancelled, primePc, tmp, sessions, optionsDeviceId,
           lastCall,
           autoStarts >>

\* The logging module's variables (src/utils/remoteLog.ts).
logVars == << sessionStorage, CLIENT_ID, loads, idsCreated, records >>

\* The development server's /log middleware (vite.config.ts).
serverVars == << requests >>

\* What no step of the component changes.
scannerFixed == << asyncRelease, logVars, serverVars >>

allVars == << vars, scannerFixed >>

\* ------------------------------------------------------- the session type
\* phase: "acquiring"  start() is pending
\*        "refreshing" start() resolved, the label refresh is pending
\*        "returned"   handleStartScan has returned (after the refresh, or
\*                     after the catch block when start() rejected)
NewSession ==
  [phase |-> "acquiring", stopInvoked |-> FALSE, streamOpen |-> FALSE]

\* scannerServiceRef.current.stop(): the stream the session holds is released,
\* before stop() returns or, where the library's release is asynchronous, in
\* a later step (ReleaseComplete).
StopSession(ss, s) ==
  [ss EXCEPT ![s].stopInvoked = TRUE,
             ![s].streamOpen = IF asyncRelease THEN @ ELSE FALSE]

\* if (scannerServiceRef.current) { scannerServiceRef.current.stop(); ... }
\* Mutant of StopHeld: the ref is dropped without stop() on its session.
StopHeld_Forgets(ss, ref) == ss

StopHeld(ss, ref) == IF ref # NoSession THEN StopSession(ss, ref) ELSE ss

\* lastCall names the handler or library callback that ran in the latest
\* step, the device id it was given, the way it went and a session: for a
\* callback the session that called back, for a start that got as far as
\* constructing a ScannerService the previous instance it found in the ref
\* and stopped first (NoSession when the ref was empty).  A step that is the
\* continuation of an await sets it to Async.
Call(name, arg, outcome) ==
  [op |-> name, arg |-> arg, outcome |-> outcome,
   sess |-> IF outcome \in {"started", "ctorThrew"}
              THEN scannerServiceRef ELSE NoSession]
Callback(name, s) ==
  [op |-> name, arg |-> Undefined, outcome |-> "ok", sess |-> s]
Async == Call("async", Undefined, "ok")

\* ------------------------------------------------------------------ Init
\* The state after the first render and the mount effect: primeAndList has
\* run up to its first await, which is getUserMedia when the capture API
\* exists and listDevices otherwise.
Mounted ==
  /\ devices = <<>>
  /\ selectedDeviceId = ""
  /\ isScanning = FALSE
  /\ isLoadingCameras = TRUE
  /\ scanResult = None
  /\ error = None
  /\ scannerServiceRef = NoSession
  /\ hasAutoStartedRef = FALSE
  /\ cancelled = FALSE
  /\ primePc \in {"priming", "listing"}
  /\ tmp = "none"
  /\ sessions = <<>>
  /\ optionsDeviceId = Undefined
  /\ lastCall = Call("mount", Undefined, "ok")
  /\ autoStarts = 0

\* The logging module at rest in its first page load: the component's model
\* leaves it there.
LogRest ==
  /\ sessionStorage = 1
  /\ CLIENT_ID = 1
  /\ loads = 1
  /\ idsCreated = 1
  /\ records = <<>>

\* The development server before any request to /log.
ServerRest == requests = <<>>

\* stop() of the library releases the stream before it returns.
Init == Mounted /\ asyncRelease = FALSE /\ LogRest /\ ServerRest

\* ------------------------------------- when the auto-start effect is due
\* if (!isLoadingCameras && devices.length > 0 && !isScanning &&
\*     !hasAutoStartedRef.current)
\* Mutant of AutoStartDue: the effect waits for a second device.
AutoStartDue_NeedsTwoDevices ==
  /\ ~cancelled
  /\ ~isLoadingCameras
  /\ Len(devices) > 1
  /\ ~isScanning
  /\ ~hasAutoStartedRef

AutoStartDue ==
  /\ ~cancelled
  /\ ~isLoadingCameras
  /\ Len(devices) > 0
  /\ ~isScanning
  /\ ~hasAutoStartedRef

\* const idToStart = selectedDeviceId || devices[0].deviceId
idToStart == IF selectedDeviceId # "" THEN selectedDeviceId
             ELSE devices[1].deviceId

\* --------------------------------------------------------- primeAndList
\* getUserMedia resolved: the temporary tracks are stopped at once, then
\* setIsLoadingCameras(true) and the enumeration is requested.
\* tmp is "none" until then, "stopped" once every track of the stream has
\* been stopped, "live" while one has not.
\* Mutant of PrimeResolve: the tracks of the temporary stream are not stopped.
PrimeResolve_KeepsTracks ==
  /\ ~AutoStartDue
  /\ UNCHANGED scannerFixed
  /\ primePc = "priming"
  /\ primePc' = "listing"
  /\ tmp' = "live"
  /\ isLoadingCameras' = TRUE
  /\ lastCall' = Async
  /\ UNCHANGED << devices, selectedDeviceId, isScanning, scanResult, error,
                  scannerServiceRef, hasAutoStartedRef, cancelled, sessions,
                  optionsDeviceId,
                  autoStarts >>

PrimeResolve ==
  /\ ~AutoStartDue
  /\ UNCHANGED scannerFixed
  /\ primePc = "priming"
  /\ primePc' = "listing"
  /\ tmp' = "stopped"
  /\ isLoadingCameras' = TRUE
  /\ lastCall' = Async
  /\ UNCHANGED << devices, selectedDeviceId, isScanning, scanResult, error,
                  scannerServiceRef, hasAutoStartedRef, cancelled, sessions,
                  optionsDeviceId,
                  autoStarts >>

\* getUserMedia rejected: logged, enumeration requested all the same.
\* Mutant of PrimeReject: the denial is shown as an error and ends
\* primeAndList.
PrimeReject_Fatal ==
  /\ ~AutoStartDue
  /\ UNCHANGED scannerFixed
  /\ primePc = "priming"
  /\ primePc' = "failed"
  /\ error' = ErrList
  /\ isLoadingCameras' = FALSE
  /\ lastCall' = Async
  /\ UNCHANGED << devices, selectedDeviceId, isScanning, scanResult,
                  scannerServiceRef, hasAutoStartedRef, cancelled, tmp,
                  sessions, optionsDeviceId, autoStarts >>

PrimeReject ==
  /\ ~AutoStartDue
  /\ UNCHANGED scannerFixed
  /\ primePc = "priming"
  /\ primePc' = "listing"
  /\ isLoadingCameras' = TRUE
  /\ lastCall' = Async
  /\ UNCHANGED << devices, selectedDeviceId, isScanning, scanResult, error,
                  scannerServiceRef, hasAutoStartedRef, cancelled, tmp,
                  sessions, optionsDeviceId,
                  autoStarts >>

FirstDeviceId(cat) == IF Len(cat) > 0 THEN cat[1].deviceId ELSE ""

\* listDevices resolved with the catalog cat.
\* Mutant of ListResolve: the answer is used without the check of cancelled.
ListResolve_IgnoresCancelled(cat) ==
  /\ ~AutoStartDue
  /\ UNCHANGED scannerFixed
  /\ primePc = "listing"
  /\ primePc' = "done"
  /\ devices' = cat
  /\ selectedDeviceId' = FirstDeviceId(cat)
  /\ error' = None
  /\ isLoadingCameras' = FALSE
  /\ lastCall' = Async
  /\ UNCHANGED << isScanning, scanResult, scannerServiceRef,
                  hasAutoStartedRef, cancelled, tmp, sessions,
                  optionsDeviceId,
                  autoStarts >>

ListResolve(cat) ==
  /\ ~AutoStartDue
  /\ UNCHANGED scannerFixed
  /\ primePc = "listing"
  /\ primePc' = "done"
  /\ IF cancelled
       THEN UNCHANGED << devices, selectedDeviceId, error, isLoadingCameras >>
       ELSE /\ devices' = cat
            /\ selectedDeviceId' = FirstDeviceId(cat)
            /\ error' = None
            /\ isLoadingCameras' = FALSE
  /\ lastCall' = Async
  /\ UNCHANGED << isScanning, scanResult, scannerServiceRef,
                  hasAutoStartedRef, cancelled, tmp, sessions,
                  optionsDeviceId,
                  autoStarts >>

\* listDevices rejected.
\* Mutant of ListReject: the device list and the selection are kept.
ListReject_KeepsDevices ==
  /\ ~AutoStartDue
  /\ UNCHANGED scannerFixed
  /\ primePc = "listing"
  /\ primePc' = "failed"
  /\ IF cancelled
       THEN UNCHANGED << error, isLoadingCameras >>
       ELSE /\ error' = ErrList
            /\ isLoadingCameras' = FALSE
  /\ lastCall' = Async
  /\ UNCHANGED << devices, selectedDeviceId, isScanning, scanResult,
                  scannerServiceRef, hasAutoStartedRef, cancelled, tmp,
                  sessions, optionsDeviceId, autoStarts >>

ListReject ==
  /\ ~AutoStartDue
  /\ UNCHANGED scannerFixed
  /\ primePc = "listing"
  /\ primePc' = "failed"
  /\ IF cancelled
       THEN UNCHANGED << devices, selectedDeviceId, error, isLoadingCameras >>
       ELSE /\ error' = ErrList
            /\ devices' = <<>>
            /\ selectedDeviceId' = ""
            /\ isLoadingCameras' = FALSE
  /\ lastCall' = Async
  /\ UNCHANGED << isScanning, scanResult, scannerServiceRef,
                  hasAutoStartedRef, cancelled, tmp, sessions,
                  optionsDeviceId,
                  autoStarts >>

\* ----------------------------------------------------------- callbacks
\* handleError: setError(err.message || ...), setScanResult(null),
\* setIsScanning(false).  It touches neither the session nor the ref.
\* Mutant of handleError: it leaves the scanning flag as it was.
handleError_KeepsScanning(msg) ==
  /\ error' = msg
  /\ scanResult' = None
  /\ isScanning' = isScanning

handleError(msg) ==
  /\ error' = msg
  /\ scanResult' = None
  /\ isScanning' = FALSE

\* handleScanSuccess: setScanResult(result), setError(null).
handleScanSuccess(result) ==
  /\ scanResult' = result
  /\ error' = None

\* ------------------------------------------------------- handleStartScan
\* videoRef.current is the rendered <video>: set while mounted.
videoAvailable == ~cancelled

\* Mutant of deviceIdToUse: an explicit id is checked against the catalog and
\* one that is not listed falls back to the selection.
deviceIdToUse_Validated(override) ==
  LET listed == \E i \in 1..Len(devices) : devices[i].deviceId = override
      d0 == IF override # Undefined /\ listed THEN override
            ELSE selectedDeviceId
  IN  IF d0 = "" /\ Len(devices) > 0 THEN devices[1].deviceId ELSE d0

\* let deviceIdToUse = deviceIdOverride ?? selectedDeviceId;
\* if (!deviceIdToUse && devices.length > 0) deviceIdToUse = devices[0].deviceId
deviceIdToUse(override) ==
  LET d0 == IF override # Undefined THEN override ELSE selectedDeviceId
  IN  IF d0 = "" /\ Len(devices) > 0 THEN devices[1].deviceId ELSE d0

\* if (deviceIdToUse === undefined || deviceIdToUse === null)
NoUsableDevice(d) == d = Undefined \/ d = None

\* Mutant of StartOutcome: the `if (isScanning) return` guard is missing.
StartOutcome_NoScanningGuard(override, ctorThrows) ==
  IF ~videoAvailable THEN "noVideo"
  ELSE IF NoUsableDevice(deviceIdToUse(override)) THEN "noDevice"
  ELSE IF ctorThrows THEN "ctorThrew"
  ELSE "started"

\* Which way one call of handleStartScan goes.  ctorThrows is the answer of
\* new ScannerService(options).
StartOutcome(override, ctorThrows) ==
  IF ~videoAvailable THEN "noVideo"
  ELSE IF NoUsableDevice(deviceIdToUse(override)) THEN "noDevice"
  ELSE IF isScanning THEN "warned"
  ELSE IF ctorThrows THEN "ctorThrew"
  ELSE "started"

\* Mutant of handleStartScan: the catch block does not reset the scanning
\* flag after the constructor threw.
handleStartScan_CtorLeavesFlag(override, ctorThrows) ==
  LET out == StartOutcome(override, ctorThrows)
      stopped == StopHeld(sessions, scannerServiceRef)
  IN
  /\ out = "started" => Len(sessions) < MaxSessions
  /\ IF out = "noVideo" THEN
       /\ error' = ErrNoVideo
       /\ UNCHANGED << scanResult, isScanning, scannerServiceRef, sessions,
                       optionsDeviceId >>
     ELSE IF out = "noDevice" THEN
       /\ error' = ErrNoDevice
       /\ UNCHANGED << scanResult, isScanning, scannerServiceRef, sessions,
                       optionsDeviceId >>
     ELSE IF out = "warned" THEN
       UNCHANGED << error, scanResult, isScanning, scannerServiceRef,
                    sessions, optionsDeviceId >>
     ELSE IF out = "ctorThrew" THEN
       /\ error' = ErrStart
       /\ scanResult' = None
       /\ isScanning' = TRUE
       /\ scannerServiceRef' = NoSession
       /\ sessions' = stopped
       /\ optionsDeviceId' = deviceIdToUse(override)
     ELSE
       /\ error' = None
       /\ scanResult' = None
       /\ isScanning' = TRUE
       /\ sessions' = Append(stopped, NewSession)
       /\ scannerServiceRef' = Len(sessions) + 1
       /\ optionsDeviceId' = deviceIdToUse(override)

\* The synchronous part of handleStartScan, up to `await start()`.  It sets
\* error, scanResult, isScanning, scannerServiceRef, sessions and
\* optionsDeviceId and leaves the other cells to its caller.
handleStartScan(override, ctorThrows) ==
  LET out == StartOutcome(override, ctorThrows)
      stopped == StopHeld(sessions, scannerServiceRef)
  IN
  /\ out = "started" => Len(sessions) < MaxSessions
  /\ IF out = "noVideo" THEN
       /\ error' = ErrNoVideo
       /\ UNCHANGED << scanResult, isScanning, scannerServiceRef, sessions,
                       optionsDeviceId >>
     ELSE IF out = "noDevice" THEN
       /\ error' = ErrNoDevice
       /\ UNCHANGED << scanResult, isScanning, scannerServiceRef, sessions,
                       optionsDeviceId >>
     ELSE IF out = "warned" THEN
       UNCHANGED << error, scanResult, isScanning, scannerServiceRef,
                    sessions, optionsDeviceId >>
     ELSE IF out = "ctorThrew" THEN
       \* the old instance is stopped and the ref nulled before `new`
       \* throws; the catch block runs handleError and setIsScanning(false)
       /\ handleError(ErrStart)
       /\ scannerServiceRef' = NoSession
       /\ sessions' = stopped
       /\ optionsDeviceId' = deviceIdToUse(override)
     ELSE
       /\ error' = None
       /\ scanResult' = None
       /\ isScanning' = TRUE
       /\ sessions' = Append(stopped, NewSession)
       /\ scannerServiceRef' = Len(sessions) + 1
       /\ optionsDeviceId' = deviceIdToUse(override)

StartScan(override, ctorThrows) ==
  /\ ~AutoStartDue
  /\ UNCHANGED scannerFixed
  /\ ~cancelled
  /\ handleStartScan(override, ctorThrows)
  /\ lastCall' = Call("start", override, StartOutcome(override, ctorThrows))
  /\ UNCHANGED << devices, selectedDeviceId, isLoadingCameras,
                  hasAutoStartedRef, cancelled, primePc, tmp, autoStarts >>

\* -------------------------------------------------------- handleStopScan
\* Whether a call of handleStopScan finds anything to stop.
StopOutcome ==
  IF scannerServiceRef = NoSession /\ ~isScanning THEN "idle" ELSE "stopped"

\* Mutant of handleStopScan: it drops the ref without calling stop() on the
\* session.
handleStopScan_NoStop ==
  /\ sessions' = sessions
  /\ scannerServiceRef' = NoSession
  /\ isScanning' = FALSE
  /\ UNCHANGED << scanResult, error, optionsDeviceId >>

\* Mutant of handleStopScan: it also clears the last result.
handleStopScan_ClearsResult ==
  /\ sessions' = StopHeld(sessions, scannerServiceRef)
  /\ scannerServiceRef' = NoSession
  /\ isScanning' = FALSE
  /\ scanResult' = None
  /\ UNCHANGED << error, optionsDeviceId >>

handleStopScan ==
  /\ sessions' = StopHeld(sessions, scannerServiceRef)
  /\ scannerServiceRef' = NoSession
  /\ isScanning' = FALSE
  /\ UNCHANGED << scanResult, error, optionsDeviceId >>

StopScan ==
  /\ ~AutoStartDue
  /\ UNCHANGED scannerFixed
  /\ ~cancelled
  /\ lastCall' = Call("stop", Undefined, StopOutcome)
  /\ handleStopScan
  /\ UNCHANGED << devices, selectedDeviceId, isLoadingCameras,
                  hasAutoStartedRef, cancelled, primePc, tmp, autoStarts >>

\* ------------------------------------------------------ handleToggleScan
\* if (isScanning) handleStopScan(); else void handleStartScan();
ToggleScan(ctorThrows) ==
  /\ ~AutoStartDue
  /\ UNCHANGED scannerFixed
  /\ ~cancelled
  /\ IF isScanning
       THEN /\ handleStopScan
            /\ lastCall' = Call("stop", Undefined, StopOutcome)
       ELSE /\ handleStartScan(Undefined, ctorThrows)
            /\ lastCall' = Call("start", Undefined,
                                StartOutcome(Undefined, ctorThrows))
  /\ UNCHANGED << devices, selectedDeviceId, isLoadingCameras,
                  hasAutoStartedRef, cancelled, primePc, tmp, autoStarts >>

\* ---------------------------------------------------- handleDeviceChange
\* Mutant of handleDeviceChange: the scanning session is not stopped.
handleDeviceChange_NoStop(newId, ctorThrows) ==
  /\ selectedDeviceId' = newId
  /\ IF isScanning
       THEN UNCHANGED << sessions, scannerServiceRef, isScanning, scanResult,
                         error, optionsDeviceId >>
       ELSE handleStartScan(newId, ctorThrows)

handleDeviceChange(newId, ctorThrows) ==
  /\ selectedDeviceId' = newId
  /\ IF isScanning
       THEN handleStopScan
       ELSE handleStartScan(newId, ctorThrows)

DeviceChange(newId, ctorThrows) ==
  /\ ~AutoStartDue
  /\ UNCHANGED scannerFixed
  /\ ~cancelled
  /\ handleDeviceChange(newId, ctorThrows)
  /\ lastCall' = Call("deviceChange", newId,
                      IF isScanning THEN "stopped"
                      ELSE StartOutcome(newId, ctorThrows))
  /\ UNCHANGED << devices, isLoadingCameras, hasAutoStartedRef, cancelled,
                  primePc, tmp, autoStarts >>

\* ----------------------------------------------------- auto-start effect
\* Mutant of AutoStartEffect: the one-shot flag is not set.
AutoStartEffect_FlagNotSet(ctorThrows) ==
  /\ AutoStartDue
  /\ UNCHANGED scannerFixed
  /\ hasAutoStartedRef' = hasAutoStartedRef
  /\ handleStartScan(idToStart, ctorThrows)
  /\ autoStarts' = autoStarts + 1
  /\ lastCall' = Call("autoStart", idToStart,
                      StartOutcome(idToStart, ctorThrows))
  /\ UNCHANGED << devices, selectedDeviceId, isLoadingCameras, cancelled,
                  primePc, tmp >>

AutoStartEffect(ctorThrows) ==
  /\ AutoStartDue
  /\ UNCHANGED scannerFixed
  /\ hasAutoStartedRef' = TRUE
  /\ handleStartScan(idToStart, ctorThrows)
  /\ autoStarts' = autoStarts + 1
  /\ lastCall' = Call("autoStart", idToStart,
                      StartOutcome(idToStart, ctorThrows))
  /\ UNCHANGED << devices, selectedDeviceId, isLoadingCameras, cancelled,
                  primePc, tmp >>

\* ------------------------------------------------- mount effect cleanup
\* Mutant of Unmount: the cleanup only raises the flag and leaves the held
\* session running.
Unmount_NoStop ==
  /\ ~AutoStartDue
  /\ UNCHANGED scannerFixed
  /\ ~cancelled
  /\ cancelled' = TRUE
  /\ lastCall' = Call("unmount", Undefined, "ok")
  /\ UNCHANGED << devices, selectedDeviceId, isScanning, isLoadingCameras,
                  scanResult, error, scannerServiceRef, hasAutoStartedRef,
                  primePc, tmp, sessions, optionsDeviceId, autoStarts >>

Unmount ==
  /\ ~AutoStartDue
  /\ UNCHANGED scannerFixed
  /\ ~cancelled
  /\ cancelled' = TRUE
  /\ sessions' = StopHeld(sessions, scannerServiceRef)
  /\ scannerServiceRef' = NoSession
  /\ lastCall' = Call("unmount", Undefined, "ok")
  /\ UNCHANGED << devices, selectedDeviceId, isScanning, isLoadingCameras,
                  scanResult, error, hasAutoStartedRef, primePc, tmp,
                  optionsDeviceId, autoStarts >>

\* --------------------------------- handleStartScan after `await start()`
Pending(s) == s \in 1..Len(sessions) /\ sessions[s].phase = "acquiring"

\* start() resolved.  The continuation logs and requests the label refresh;
\* it reads no flag and sets no cell.  The stream is open, unless stop() was
\* invoked on the session while the acquisition was in flight and the
\* library released the stream on its own (libReleased).
AcquireResolve(s, libReleased) ==
  /\ ~AutoStartDue
  /\ UNCHANGED scannerFixed
  /\ Pending(s)
  /\ sessions' = [sessions EXCEPT
                    ![s].phase = "refreshing",
                    ![s].streamOpen = ~(sessions[s].stopInvoked /\ libReleased)]
  /\ lastCall' = Async
  /\ UNCHANGED << devices, selectedDeviceId, isScanning, isLoadingCameras,
                  scanResult, error, scannerServiceRef, hasAutoStartedRef,
                  cancelled, primePc, tmp, optionsDeviceId,
                  autoStarts >>

\* start() rejected: catch block, handleError(err) and setIsScanning(false).
AcquireReject(s) ==
  /\ ~AutoStartDue
  /\ UNCHANGED scannerFixed
  /\ Pending(s)
  /\ sessions' = [sessions EXCEPT ![s].phase = "returned"]
  /\ handleError(ErrStart)
  /\ lastCall' = Async
  /\ UNCHANGED << devices, selectedDeviceId, isLoadingCameras,
                  scannerServiceRef, hasAutoStartedRef, cancelled, primePc, tmp,
                  optionsDeviceId,
                  autoStarts >>

\* videoDevices.some(d => d.label && d.label !== '')
hasBetterLabels(cat) == \E i \in 1..Len(cat) : cat[i].label # ""

Refreshing(s) == s \in 1..Len(sessions) /\ sessions[s].phase = "refreshing"

\* Mutant of RefreshResolve: a replaced list also moves the selection to its
\* first entry.
RefreshResolve_Reselects(s, cat) ==
  /\ ~AutoStartDue
  /\ UNCHANGED scannerFixed
  /\ Refreshing(s)
  /\ sessions' = [sessions EXCEPT ![s].phase = "returned"]
  /\ devices' = IF hasBetterLabels(cat) THEN cat ELSE devices
  /\ selectedDeviceId' = IF hasBetterLabels(cat) THEN cat[1].deviceId
                         ELSE selectedDeviceId
  /\ lastCall' = Async
  /\ UNCHANGED << isScanning, isLoadingCameras, scanResult,
                  error, scannerServiceRef, hasAutoStartedRef, cancelled,
                  primePc, tmp, optionsDeviceId,
                  autoStarts >>

\* The enumeration requested after start() answered: the list replaces the
\* known one when it carries at least one label; nothing else is set.
RefreshResolve(s, cat) ==
  /\ ~AutoStartDue
  /\ UNCHANGED scannerFixed
  /\ Refreshing(s)
  /\ sessions' = [sessions EXCEPT ![s].phase = "returned"]
  /\ devices' = IF hasBetterLabels(cat) THEN cat ELSE devices
  /\ lastCall' = Async
  /\ UNCHANGED << selectedDeviceId, isScanning, isLoadingCameras, scanResult,
                  error, scannerServiceRef, hasAutoStartedRef, cancelled,
                  primePc, tmp, optionsDeviceId,
                  autoStarts >>

RefreshReject(s) ==
  /\ ~AutoStartDue
  /\ UNCHANGED scannerFixed
  /\ Refreshing(s)
  /\ sessions' = [sessions EXCEPT ![s].phase = "returned"]
  /\ lastCall' = Async
  /\ UNCHANGED << devices, selectedDeviceId, isScanning, isLoadingCameras,
                  scanResult, error, scannerServiceRef, hasAutoStartedRef,
                  cancelled, primePc, tmp, optionsDeviceId,
                  autoStarts >>

\* ------------------------------------------- callbacks from the library
\* A session decodes frames while it has an open stream.
Decoding(s) ==
  /\ s \in 1..Len(sessions)
  /\ sessions[s].streamOpen

\* options.onScanSuccess
\* Mutant of ScanSuccess: the session is stopped on the first result, as with
\* stopOnScan: true and a handler that ends the scan.
ScanSuccess_StopsSession(s, result) ==
  /\ ~AutoStartDue
  /\ UNCHANGED scannerFixed
  /\ Decoding(s)
  /\ handleScanSuccess(result)
  /\ sessions' = StopSession(sessions, s)
  /\ isScanning' = FALSE
  /\ scannerServiceRef' = NoSession
  /\ lastCall' = Callback("onScanSuccess", s)
  /\ UNCHANGED << devices, selectedDeviceId, isLoadingCameras,
                  hasAutoStartedRef, cancelled, primePc, tmp, optionsDeviceId,
                  autoStarts >>

ScanSuccess(s, result) ==
  /\ ~AutoStartDue
  /\ UNCHANGED scannerFixed
  /\ Decoding(s)
  /\ handleScanSuccess(result)
  /\ lastCall' = Callback("onScanSuccess", s)
  /\ UNCHANGED << devices, selectedDeviceId, isScanning, isLoadingCameras,
                  scannerServiceRef, hasAutoStartedRef, cancelled, primePc, tmp,
                  sessions, optionsDeviceId,
                  autoStarts >>

\* options.onError.  libReleased: whether the library released the stream
\* by itself before it reported the error.
ScanError(s, libReleased) ==
  /\ ~AutoStartDue
  /\ UNCHANGED scannerFixed
  /\ Decoding(s)
  /\ handleError(ErrDecode)
  /\ sessions' = [sessions EXCEPT
                    ![s].streamOpen = ~libReleased]
  /\ lastCall' = Callback("onError", s)
  /\ UNCHANGED << devices, selectedDeviceId, isLoadingCameras,
                  scannerServiceRef, hasAutoStartedRef, cancelled, primePc, tmp,
                  optionsDeviceId,
                  autoStarts >>

\* ------------------------------------------------------------------ Next
\* The auto-start effect runs with the render that makes it due, before any
\* later event or continuation: every other action is disabled while
\* AutoStartDue holds.
Next ==
  \/ \E t \in BOOLEAN : AutoStartEffect(t)
  \/ PrimeResolve
  \/ PrimeReject
  \/ \E cat \in Catalogs : ListResolve(cat)
  \/ ListReject
  \/ \E o \in DeviceIds \cup {Undefined}, t \in BOOLEAN : StartScan(o, t)
  \/ StopScan
  \/ \E t \in BOOLEAN : ToggleScan(t)
  \/ \E d \in DeviceIds, t \in BOOLEAN : DeviceChange(d, t)
  \/ Unmount
  \/ \E s \in 1..MaxSessions, b \in BOOLEAN : AcquireResolve(s, b)
  \/ \E s \in 1..MaxSessions : AcquireReject(s)
  \/ \E s \in 1..MaxSessions, cat \in Catalogs : RefreshResolve(s, cat)
  \/ \E s \in 1..MaxSessions : RefreshReject(s)
  \/ \E s \in 1..MaxSessions, r \in ScanResults : ScanSuccess(s, r)
  \/ \E s \in 1..MaxSessions, b \in BOOLEAN : ScanError(s, b)

Spec == Init /\ [][Next]_allVars

\* ------------------------------------------------- the rendered controls
\* Spec lets every handler be called at any time.  The component exports no
\* handler: what a user can reach is the <select> and the toggle <button>,
\* each behind its `disabled` attribute.
\* <select disabled={isScanning || isLoadingCameras || devices.length === 0}>
selectDisabled == isScanning \/ isLoadingCameras \/ Len(devices) = 0

\* const disabled = isLoadingCameras || (devices.length === 0 && !isScanning)
toggleDisabled == isLoadingCameras \/ (Len(devices) = 0 /\ ~isScanning)

\* The <option> values: devices.map(device => device.deviceId)
optionValues == { devices[i].deviceId : i \in 1..Len(devices) }

\* onChange of the <select>: another option is chosen.
SelectCamera(newId, ctorThrows) ==
  /\ ~selectDisabled
  /\ newId \in optionValues
  /\ newId # selectedDeviceId
  /\ DeviceChange(newId, ctorThrows)

\* onClick of the toggle button.
ClickToggle(ctorThrows) ==
  /\ ~toggleDisabled
  /\ ToggleScan(ctorThrows)

\* Every step but the teardown: effects, user gestures on enabled controls,
\* completions of pending platform and library calls.
Progress ==
  \/ \E t \in BOOLEAN : AutoStartEffect(t)
  \/ PrimeResolve
  \/ PrimeReject
  \/ \E cat \in Catalogs : ListResolve(cat)
  \/ ListReject
  \/ \E t \in BOOLEAN : ClickToggle(t)
  \/ \E d \in DeviceIds, t \in BOOLEAN : SelectCamera(d, t)
  \/ \E s \in 1..MaxSessions, b \in BOOLEAN : AcquireResolve(s, b)
  \/ \E s \in 1..MaxSessions : AcquireReject(s)
  \/ \E s \in 1..MaxSessions, cat \in Catalogs : RefreshResolve(s, cat)
  \/ \E s \in 1..MaxSessions : RefreshReject(s)
  \/ \E s \in 1..MaxSessions, r \in ScanResults : ScanSuccess(s, r)
  \/ \E s \in 1..MaxSessions, b \in BOOLEAN : ScanError(s, b)

NextUI == Progress \/ Unmount

\* The component as a user drives it.  Whatever can happen does happen in the
\* end (a pending call completes, an effect runs, a user who wants to scan
\* keeps using an enabled control); only the teardown is never forced.
SpecUI == Init /\ [][NextUI]_allVars /\ WF_allVars(Progress)

\* ------------------------------------------- asynchronous release by stop()
\* ScannerService.stop() is called without await everywhere (lines 76-79,
\* 145-148, 199-202), so the component never sees when the release ends.
\* Where the library releases after stop() has returned, that is a later step.
Releasing(s) ==
  /\ s \in 1..Len(sessions)
  /\ sessions[s].stopInvoked
  /\ sessions[s].streamOpen

ReleaseComplete(s) ==
  /\ ~AutoStartDue
  /\ asyncRelease
  /\ Releasing(s)
  /\ sessions' = [sessions EXCEPT ![s].streamOpen = FALSE]
  /\ lastCall' = Async
  /\ UNCHANGED << devices, selectedDeviceId, isScanning, isLoadingCameras,
                  scanResult, error, scannerServiceRef, hasAutoStartedRef,
                  cancelled, primePc, tmp, optionsDeviceId, autoStarts >>
  /\ UNCHANGED scannerFixed

InitAsync == Mounted /\ asyncRelease = TRUE /\ LogRest /\ ServerRest

NextAsync ==
  \/ Next
  \/ \E s \in 1..MaxSessions : ReleaseComplete(s)

\* The component on a library whose stop() releases asynchronously.
SpecAsync == InitAsync /\ [][NextAsync]_allVars

\* ======================================================= remoteLog.ts
\* The logging module: getClientId and CLIENT_ID (lines 10-22), remoteLog
\* (36-96) and sendWithFetch (99-110).  A page load evaluates the module and
\* with it getClientId; remoteLog runs to completion in one step; the promise
\* of a fetch settles in a later step.  The log level only selects the
\* console method (53-67) and is left out.

\* Page loads and remoteLog calls of one browsing session.
MaxLoads == 2
MaxCalls == 2

\* sessionStorage.getItem('clientId') === null
NoItem == 0

\* The data argument: not passed, a plain object, an object JSON.stringify
\* throws on (a cycle, a BigInt), a value it returns undefined for (a
\* function, a symbol).
DataKinds == {Undefined, "plain", "circular", "function"}

\* navigator.sendBeacon: not there, returns true, returns false, throws.
BeaconAnswers == {"absent", "true", "false", "throws"}

\* JSON.stringify(data)
stringify(data) ==
  CASE data = "plain"    -> "{json}"
    [] data = "circular" -> "throws"
    [] OTHER             -> "undefined"

Placeholder == " [Unserializable data]"

\* Lines 38-46: '' without data, ' ' + JSON.stringify(data) with it, the
\* placeholder when JSON.stringify throws.
dataString(data) ==
  IF data = Undefined THEN ""
  ELSE CASE stringify(data) = "throws"    -> Placeholder
         [] stringify(data) = "{json}"    -> " {json}"
         [] stringify(data) = "undefined" -> " undefined"

\* What lines 38-67 write to the console, in order.
consoleEvents(data) ==
  IF data # Undefined /\ stringify(data) = "throws"
    THEN << "console:stringifyError", "console:formatted" >>
    ELSE << "console:formatted" >>

\* sendWithFetch as called inside remoteLog's try block: fetch(...) returns
\* a promise, or throws before it does (caught at line 93).
fetchEvents(fetchThrows) ==
  IF fetchThrows THEN << "fetch", "console:sendError" >> ELSE << "fetch" >>

\* Lines 70-95.
\* Mutant of sendEvents: the result of sendBeacon is ignored and fetch is
\* called as well.
sendEvents_AlwaysFetch(beacon, fetchThrows) ==
  CASE beacon = "absent" -> fetchEvents(fetchThrows)
    [] beacon = "throws" -> << "sendBeacon", "console:sendError" >>
    [] OTHER             -> << "sendBeacon" >> \o fetchEvents(fetchThrows)

sendEvents(beacon, fetchThrows) ==
  CASE beacon = "absent" -> fetchEvents(fetchThrows)
    [] beacon = "true"   -> << "sendBeacon" >>
    [] beacon = "false"  -> << "sendBeacon", "console:beaconFalse" >>
                              \o fetchEvents(fetchThrows)
    [] beacon = "throws" -> << "sendBeacon", "console:sendError" >>

\* Whether the call leaves a fetch promise behind.
fetchIssued(beacon, fetchThrows) ==
  beacon \in {"absent", "false"} /\ ~fetchThrows

\* One remoteLog call: its arguments and the platform's answers, the payload
\* fields that matter, what it did in order, whether an exception left it,
\* and the state of the fetch promise.
\* Mutant of LogRecord: JSON.stringify(data) is called outside a try block,
\* so its exception ends the call.
LogRecord_NoTry(data, beacon, fetchThrows) ==
  IF data # Undefined /\ stringify(data) = "throws"
    THEN [ data |-> data, beacon |-> beacon, clientId |-> CLIENT_ID,
           dataString |-> "", events |-> << >>, threw |-> TRUE,
           fetch |-> "none" ]
    ELSE [ data       |-> data,
           beacon     |-> beacon,
           clientId   |-> CLIENT_ID,
           dataString |-> dataString(data),
           events     |-> consoleEvents(data) \o sendEvents(beacon, fetchThrows),
           threw      |-> FALSE,
           fetch      |-> IF fetchIssued(beacon, fetchThrows)
                            THEN "pending" ELSE "none" ]

\* Mutant of LogRecord: the console line is written after the delivery, and
\* not at all when the delivery throws.
LogRecord_SendFirst(data, beacon, fetchThrows) ==
  [ data       |-> data,
    beacon     |-> beacon,
    clientId   |-> CLIENT_ID,
    dataString |-> dataString(data),
    events     |-> IF beacon = "throws" \/ (fetchThrows /\ beacon # "true")
                     THEN sendEvents(beacon, fetchThrows)
                     ELSE sendEvents(beacon, fetchThrows) \o consoleEvents(data),
    threw      |-> FALSE,
    fetch      |-> IF fetchIssued(beacon, fetchThrows)
                     THEN "pending" ELSE "none" ]

LogRecord(data, beacon, fetchThrows) ==
  [ data       |-> data,
    beacon     |-> beacon,
    clientId   |-> CLIENT_ID,
    dataString |-> dataString(data),
    events     |-> consoleEvents(data) \o sendEvents(beacon, fetchThrows),
    threw      |-> FALSE,
    fetch      |-> IF fetchIssued(beacon, fetchThrows)
                     THEN "pending" ELSE "none" ]

remoteLog(data, beacon, fetchThrows) ==
  /\ Len(records) < MaxCalls
  /\ records' = Append(records, LogRecord(data, beacon, fetchThrows))
  /\ UNCHANGED << sessionStorage, CLIENT_ID, loads, idsCreated >>
  /\ UNCHANGED << vars, asyncRelease, serverVars >>

FetchPending(i) == i \in 1..Len(records) /\ records[i].fetch = "pending"

\* The fetch promise resolves: nothing runs.
FetchResolve(i) ==
  /\ FetchPending(i)
  /\ records' = [records EXCEPT ![i].fetch = "resolved"]
  /\ UNCHANGED << sessionStorage, CLIENT_ID, loads, idsCreated >>
  /\ UNCHANGED << vars, asyncRelease, serverVars >>

\* The fetch promise rejects: the .catch at lines 107-109 logs it.
\* Mutant of FetchReject: the .catch sends the record again.
FetchReject_Retries(i) ==
  /\ FetchPending(i)
  /\ records' = [records EXCEPT
                   ![i].events = @ \o << "console:fetchFailed", "fetch" >>]
  /\ UNCHANGED << sessionStorage, CLIENT_ID, loads, idsCreated >>
  /\ UNCHANGED << vars, asyncRelease, serverVars >>

FetchReject(i) ==
  /\ FetchPending(i)
  /\ records' = [records EXCEPT
                   ![i].fetch = "rejected",
                   ![i].events = Append(@, "console:fetchFailed")]
  /\ UNCHANGED << sessionStorage, CLIENT_ID, loads, idsCreated >>
  /\ UNCHANGED << vars, asyncRelease, serverVars >>

\* getClientId with the stored item, the id it would generate and whether
\* sessionStorage.setItem throws: the id it returns and what is stored then.
getClientId(item, fresh, setItemThrows) ==
  IF item # NoItem
    THEN [clientId |-> item, item |-> item, created |-> 0]
    ELSE [clientId |-> fresh,
          item     |-> IF setItemThrows THEN NoItem ELSE fresh,
          created  |-> 1]

\* `client_${Date.now()}_${random}`: an id no earlier load generated.
freshId == idsCreated + 1

\* The page is loaded again in the same browsing session.
PageLoad(setItemThrows) ==
  LET g == getClientId(sessionStorage, freshId, setItemThrows) IN
  /\ loads < MaxLoads
  /\ loads' = loads + 1
  /\ CLIENT_ID' = g.clientId
  /\ sessionStorage' = g.item
  /\ idsCreated' = idsCreated + g.created
  /\ UNCHANGED records
  /\ UNCHANGED << vars, asyncRelease, serverVars >>

\* The first page load of the browsing session has evaluated the module.
LogInit ==
  \E setItemThrows \in BOOLEAN :
    LET g == getClientId(NoItem, 1, setItemThrows) IN
    /\ loads = 1
    /\ CLIENT_ID = g.clientId
    /\ sessionStorage = g.item
    /\ idsCreated = g.created
    /\ records = <<>>

InitLog ==
  Mounted /\ primePc = "priming" /\ asyncRelease = FALSE /\ LogInit /\ ServerRest

NextLog ==
  \/ \E d \in DataKinds, b \in BeaconAnswers, t \in BOOLEAN : remoteLog(d, b, t)
  \/ \E i \in 1..MaxCalls : FetchResolve(i)
  \/ \E i \in 1..MaxCalls : FetchReject(i)
  \/ \E t \in BOOLEAN : PageLoad(t)

SpecLog == InitLog /\ [][NextLog]_allVars

\* =========================================== the /log middleware, server
\* vite.config.ts, serverLogPlugin: server.middlewares.use('/log', ...).
\* Every request has its own `body` closure; the middleware keeps nothing
\* between requests.

\* Requests one run sends to /log.
MaxRequests == 1

\* 'data' events one request may deliver.
MaxChunks == 3

Methods == {"POST", "GET"}

\* A member of an object, as one piece of body text.
FieldChunks == { "\"clientId\":\"c1\"" }

\* The pieces of text a 'data' event may carry; the body is their
\* concatenation (body += chunk.toString()), kept as the sequence of pieces.
Chunks == {"{", "}", "null", "7"} \cup FieldChunks

Keys == {"clientId", "source", "level", "component", "message", "dataString"}

\* The members the text of an object holds; a key that is not there reads
\* as undefined.
members(body) ==
  [k \in Keys |->
     IF k = "clientId" /\ \E n \in 1..Len(body) : body[n] = "\"clientId\":\"c1\""
       THEN "c1" ELSE Undefined]

NoMembers == [k \in Keys |-> Undefined]

\* JSON.parse(body): the literal null, a number, an object with no or one
\* member; every other text over Chunks (the empty text, an unclosed or
\* unopened brace, two values or two members in a row) is a SyntaxError.
JSONparse(body) ==
  IF body = << "null" >> THEN [kind |-> "null", members |-> NoMembers]
  ELSE IF body = << "7" >> THEN [kind |-> "number", members |-> NoMembers]
  ELSE IF body = << "{", "}" >> THEN [kind |-> "object", members |-> NoMembers]
  ELSE IF /\ Len(body) = 3
          /\ body[1] = "{"
          /\ body[2] \in FieldChunks
          /\ body[3] = "}"
    THEN [kind |-> "object", members |-> members(body)]
  ELSE [kind |-> "SyntaxError", members |-> NoMembers]

\* const { clientId, ... } = logPayload: destructuring null is a TypeError,
\* a number has none of the properties.
destructureThrows(logPayload) == logPayload.kind = "null"

Defaults ==
  [k \in Keys |->
     CASE k = "clientId"  -> "UNKNOWN"
       [] k = "level"     -> "INFO"
       [] k = "source"    -> "Unknown"
       [] k = "component" -> "Unknown"
       [] OTHER           -> ""]

\* x || d
Or(x, d) == IF x = Undefined \/ x = "" THEN d ELSE x

\* The parts of finalMessage that come from the payload (the timestamp is
\* the server's clock).
finalMessage(logPayload) ==
  [k \in Keys |-> Or(logPayload.members[k], Defaults[k])]

Logged      == [status |-> 200, body |-> [status |-> "logged", message |-> ""]]
InvalidJSON ==
  [status |-> 400, body |-> [status |-> "error", message |-> "Invalid JSON"]]

\* The 'end' handler of a POST: what it prints and what it answers.
endOutcome(body) ==
  LET logPayload == JSONparse(body) IN
  IF logPayload.kind = "SyntaxError" \/ destructureThrows(logPayload)
    THEN [console |-> "error", line |-> NoMembers, response |-> InvalidJSON]
    ELSE [console |-> "log", line |-> finalMessage(logPayload),
          response |-> Logged]

serverFixed == << vars, asyncRelease, logVars >>

\* The middleware is called with a request: a POST gets its listeners,
\* anything else goes to next().
Request(method) ==
  /\ Len(requests) < MaxRequests
  /\ requests' = Append(requests,
       [ method    |-> method,
         body      |-> << >>,
         pc        |-> IF method = "POST" THEN "receiving" ELSE "done",
         passedOn  |-> method # "POST",
         console   |-> << >>,
         responses |-> << >> ])
  /\ UNCHANGED serverFixed

Receiving(i) == i \in 1..Len(requests) /\ requests[i].pc = "receiving"

\* req.on('data'): body += chunk.toString()
Data(i, chunk) ==
  /\ Receiving(i)
  /\ Len(requests[i].body) < MaxChunks
  /\ requests' = [requests EXCEPT ![i].body = Append(@, chunk)]
  /\ UNCHANGED serverFixed

\* req.on('end'): parse, print, answer.
End(i) ==
  LET o == endOutcome(requests[i].body) IN
  /\ Receiving(i)
  /\ requests' = [requests EXCEPT
                    ![i].pc = "done",
                    ![i].console = Append(@, [kind |-> o.console,
                                              line |-> o.line]),
                    ![i].responses = Append(@, o.response)]
  /\ UNCHANGED serverFixed

InitServer ==
  Mounted /\ primePc = "priming" /\ asyncRelease = FALSE /\ LogRest /\ ServerRest

NextServer ==
  \/ \E m \in Methods : Request(m)
  \/ \E i \in 1..MaxRequests, c \in Chunks : Data(i, c)
  \/ \E i \in 1..MaxRequests : End(i)

SpecServer == InitServer /\ [][NextServer]_allVars

\* ================================================================ claims
SessionIds == 1..Len(sessions)

OpenStreams == { s \in SessionIds : sessions[s].streamOpen }

\* C1: at most one hardware stream is open at any instant, whatever the
\* interleaving of calls and asynchronous completions.
C1_AtMostOneStream == Cardinality(OpenStreams) <= 1

\* C2: a session on which stop() was invoked while its acquisition was in
\* flight has no open stream once the acquisition has completed, and is not
\* the session the controller is scanning with.
C2_StoppedStartDiscarded ==
  \A s \in SessionIds :
    sessions[s].stopInvoked =>
      /\ ~sessions[s].streamOpen
      /\ ~(isScanning /\ scannerServiceRef = s)

\* C3: a call of start while the scanning flag is set (the controller is
\* Starting or Active) changes no cell, constructs no ScannerService, builds
\* no options and only logs the warning.
C3_StartWhileScanningIsNoop ==
  [][ (isScanning /\ lastCall'.op = "start")
        => /\ lastCall'.outcome = "warned"
           /\ UNCHANGED << devices, selectedDeviceId, isScanning,
                           isLoadingCameras, scanResult, error,
                           scannerServiceRef, hasAutoStartedRef, sessions,
                           optionsDeviceId >> ]_vars

C3_Witness ==
  /\ lastCall.op = "start"
  /\ lastCall.outcome = "warned"
  /\ isScanning
  /\ scannerServiceRef # NoSession

\* C4: the automatic start is issued at most once; once the one-shot flag is
\* set it stays set and no later step issues another automatic start.
C4_AutoStartAtMostOnce ==
  [][ /\ autoStarts' <= 1
      /\ hasAutoStartedRef => (hasAutoStartedRef' /\ autoStarts' = autoStarts)
    ]_vars

\* The auto-start has been issued and everything but the flag asks for one
\* again: mounted, cameras loaded, a device listed, not scanning.
C4_Witness ==
  /\ hasAutoStartedRef
  /\ autoStarts = 1
  /\ ~cancelled
  /\ ~isLoadingCameras
  /\ Len(devices) > 0
  /\ ~isScanning
  /\ lastCall.op \in {"stop", "onError"}

\* C5: every stop leaves the controller Idle, and a stop that finds it Idle
\* already changes nothing.
C5_StopWhenIdleChangesNothing ==
  [][ lastCall'.op = "stop"
        => /\ scannerServiceRef' = NoSession
           /\ ~isScanning'
           /\ (scannerServiceRef = NoSession /\ ~isScanning)
                => UNCHANGED << devices, selectedDeviceId, isScanning,
                                isLoadingCameras, scanResult, error,
                                scannerServiceRef, sessions >> ]_vars

C5_Witness ==
  /\ lastCall = Call("stop", Undefined, "idle")
  /\ scanResult # None

\* C6: with an empty device list and no selection, start() without a device
\* id fails with the 'no device available' condition and constructs nothing.
C6_NoDeviceStartFails ==
  [][ ( /\ lastCall'.op = "start"
        /\ lastCall'.arg = Undefined
        /\ Len(devices) = 0
        /\ selectedDeviceId = "" )
        => /\ lastCall'.outcome = "noDevice"
           /\ error' = ErrNoDevice
           /\ sessions' = sessions
           /\ optionsDeviceId' = optionsDeviceId
           /\ isScanning' = isScanning ]_vars

\* A step in which handleStartScan constructed a ScannerService and called
\* start() on it, bound to device id d.
StartedWith(d) ==
  /\ Len(sessions') = Len(sessions) + 1
  /\ scannerServiceRef' = Len(sessions')
  /\ sessions'[scannerServiceRef'] = NewSession
  /\ optionsDeviceId' = d
  /\ isScanning'
  /\ error' = None
  /\ scanResult' = None
  /\ scannerServiceRef # NoSession => sessions'[scannerServiceRef].stopInvoked

CatalogIds == { devices[i].deviceId : i \in 1..Len(devices) }

\* A step that is a call with the explicit device id d, d not in the catalog.
CallWithUnlistedId ==
  /\ lastCall'.op \in {"start", "deviceChange"}
  /\ lastCall'.arg \in DeviceIds
  /\ lastCall'.arg \notin CatalogIds
  /\ lastCall'.outcome # "ctorThrew"

\* A step in which a new session starts acquiring device id d.
AcquisitionAttempted(d) ==
  /\ Len(sessions') = Len(sessions) + 1
  /\ sessions'[Len(sessions')].phase = "acquiring"
  /\ scannerServiceRef' = Len(sessions')
  /\ optionsDeviceId' = d

\* A step in which the pending start() of session s rejected.
StartRejected(s) ==
  /\ sessions[s].phase = "acquiring"
  /\ sessions'[s].phase = "returned"

RejectionEndsInError ==
  \A s \in SessionIds : StartRejected(s) => (~isScanning' /\ error' = ErrStart)

C9_DecodeErrorReleasesHardware ==
  lastCall.op = "onError"
    => /\ error = ErrDecode
       /\ ~isScanning
       /\ ~sessions[lastCall.sess].streamOpen

\* C10: a failed start ends in Error with the failed session stopped and no
\* longer held.
C10_FailedStartReleased ==
  [][ /\ \A s \in SessionIds :
           StartRejected(s)
             => /\ ~isScanning'
                /\ error' # None
                /\ sessions'[s].stopInvoked
                /\ scannerServiceRef' # s
      /\ lastCall'.outcome = "ctorThrew"
           => /\ ~isScanning'
              /\ error' # None
              /\ scannerServiceRef' = NoSession ]_vars

\* A step in which a start fails (the constructor throws, or the pending
\* acquisition rejects) or a session reports a decode-time error.
FailureStep ==
  \/ \E s \in SessionIds : StartRejected(s)
  \/ lastCall'.outcome = "ctorThrew"
  \/ lastCall'.op = "onError"

ErrorShown == error \in {ErrStart, ErrDecode} /\ ~isScanning

\* C11: every start failure and every decode-time error leaves the scanning
\* flag off with the error shown, and a start called in that state is not
\* refused by the already-scanning guard: it goes on to construct a
\* ScannerService and, unless the constructor throws, stops the instance left
\* in the ref and begins a fresh acquisition with the flag set again.
C11_ErrorIsNoDeadEnd ==
  [][ /\ FailureStep => (~isScanning' /\ error' \in {ErrStart, ErrDecode})
      /\ (ErrorShown /\ lastCall'.op = "start")
           => /\ lastCall'.outcome \in {"started", "ctorThrew"}
              /\ lastCall'.outcome = "started"
                   => StartedWith(deviceIdToUse(lastCall'.arg)) ]_vars

\* A start has just replaced the instance that a failed session left in the
\* ref: the new session's acquisition is pending and the flag is set.
C11_Witness ==
  /\ lastCall.op = "start"
  /\ lastCall.outcome = "started"
  /\ lastCall.sess # NoSession
  /\ sessions[lastCall.sess].stopInvoked
  /\ isScanning
  /\ scannerServiceRef # NoSession
  /\ sessions[scannerServiceRef].phase = "acquiring"

\* C12: a decode result is forwarded without ending the session: the step in
\* which a session delivers a result sets the last result to it and clears
\* the error, and leaves the scanning flag, the held session, every session's
\* state (the delivering session's stream stays open, so further results can
\* follow) and the selected device as they were.
C12_ResultKeepsSession ==
  [][ lastCall'.op = "onScanSuccess"
        => /\ scanResult' \in ScanResults
           /\ error' = None
           /\ UNCHANGED << isScanning, scannerServiceRef, selectedDeviceId,
                           sessions >>
           /\ sessions'[lastCall'.sess].streamOpen ]_vars

\* The held session of a scanning controller has just delivered a result and
\* is still decoding.
C12_Witness ==
  /\ lastCall.op = "onScanSuccess"
  /\ scanResult = "qrA"
  /\ error = None
  /\ isScanning
  /\ scannerServiceRef = lastCall.sess
  /\ sessions[scannerServiceRef].streamOpen
  /\ ~sessions[scannerServiceRef].stopInvoked

\* C13: stop is accepted whatever the controller is doing (nothing held,
\* acquisition pending, stream open, error shown): the step of a stop call
\* ends with no session held and the scanning flag off, and stop() has been
\* invoked on the session that was held, whose stream is no longer open.
C13_StopFromEveryState ==
  [][ lastCall'.op = "stop"
        => /\ scannerServiceRef' = NoSession
           /\ ~isScanning'
           /\ scannerServiceRef # NoSession
                => /\ sessions'[scannerServiceRef].stopInvoked
                   /\ ~sessions'[scannerServiceRef].streamOpen ]_vars

\* A stop call made in the Error state has just stopped the session that a
\* decode-time error had left in the ref.
C13_Witness ==
  /\ lastCall = Call("stop", Undefined, "stopped")
  /\ error = ErrDecode
  /\ scannerServiceRef = NoSession
  /\ ~isScanning
  /\ \E s \in SessionIds : sessions[s].stopInvoked

\* C14: once the component has been torn down, in whatever state the teardown
\* found it, the ref is empty and stop() has been invoked on every session
\* that was ever constructed, the one whose start was still pending included.
C14_TeardownStopsEverySession ==
  cancelled =>
    /\ scannerServiceRef = NoSession
    /\ \A s \in SessionIds : sessions[s].stopInvoked

\* The teardown has just run while a start was pending: that session's
\* acquisition is still in flight and stop() has been invoked on it.
C14_Witness ==
  /\ cancelled
  /\ lastCall.op = "unmount"
  /\ scannerServiceRef = NoSession
  /\ \E s \in SessionIds :
       sessions[s].phase = "acquiring" /\ sessions[s].stopInvoked

\* A step in which primeAndList resumes from one of its awaits.
PrimeAndListResumes == primePc' # primePc

\* C15: when the component was torn down while the priming or the initial
\* enumeration was pending, the step in which primeAndList resumes changes
\* none of the device list, the selected id, the error and the loading flag.
C15_ResumeAfterTeardownIsSilent ==
  [][ (cancelled /\ PrimeAndListResumes)
        => UNCHANGED << devices, selectedDeviceId, error,
                        isLoadingCameras >> ]_vars

\* primeAndList has run to its end after the teardown: the enumeration has
\* answered and the loading flag is still set, as the teardown found it.
C15_Witness ==
  /\ cancelled
  /\ primePc \in {"done", "failed"}
  /\ isLoadingCameras
  /\ lastCall = Async

\* C16: when stop() is called while a session's post-start re-enumeration is
\* pending, the re-enumeration's answer is discarded: the step in which it
\* arrives (here: as the very next step, the component still mounted) leaves
\* the device list as it was.
C16_StaleRefreshDiscarded ==
  [][ \A s \in SessionIds :
        ( /\ lastCall.op = "stop"
          /\ Refreshing(s)
          /\ sessions[s].stopInvoked
          /\ ~cancelled
          /\ sessions'[s].phase = "returned" )
          => devices' = devices ]_vars

\* C17: the stream that the priming acquires never outlives the step in
\* which its acquisition resolves: in no state, torn down or not, with or
\* without a scanning session, does it have a live track.
C17_PrimingStreamReleased == tmp # "live"

\* The priming's acquisition resolved after the teardown and its tracks were
\* stopped.
C17_Witness ==
  /\ tmp = "stopped"
  /\ cancelled
  /\ primePc = "listing"

\* C18: whether the permission is granted or denied, the step that ends the
\* priming leaves the error as it was and goes on to request the enumeration
\* (where the capture API is absent, Init starts there); it never ends
\* primeAndList.
C18_PrimingNeverFatal ==
  [][ (primePc = "priming" /\ PrimeAndListResumes)
        => /\ primePc' = "listing"
           /\ error' = error ]_vars

\* The permission has just been denied: no stream was acquired, no error is
\* shown and the enumeration is pending.
C18_Witness ==
  /\ primePc = "listing"
  /\ tmp = "none"
  /\ lastCall = Async
  /\ sessions = <<>>
  /\ error = None

\* The step in which the initial enumeration fails.
InitialListFails == primePc = "listing" /\ primePc' = "failed"

\* C19: when the initial enumeration fails while the component is mounted,
\* that step empties the device list, clears the selection, sets the listing
\* error and clears the loading flag; it constructs and starts no session,
\* and leaves no automatic start due.
C19_ListFailure ==
  [][ (InitialListFails /\ ~cancelled)
        => /\ devices' = <<>>
           /\ selectedDeviceId' = ""
           /\ error' = ErrList
           /\ ~isLoadingCameras'
           /\ UNCHANGED << sessions, scannerServiceRef, isScanning >>
           /\ ~AutoStartDue' ]_vars

\* The initial enumeration has just failed on a mounted component.
C19_Witness ==
  /\ primePc = "failed"
  /\ ~cancelled
  /\ lastCall = Async
  /\ error = ErrList
  /\ devices = <<>>
  /\ selectedDeviceId = ""
  /\ ~isLoadingCameras

\* The controller is Active with a catalog to choose from.
ActiveWithDevices ==
  /\ Len(devices) > 0
  /\ isScanning
  /\ scannerServiceRef # NoSession
  /\ sessions[scannerServiceRef].streamOpen

\* C20: an enumeration failure is recoverable by retry on the same instance:
\* from the state a failed initial enumeration leaves on a mounted component,
\* with every enabled control used and every pending call answered in the
\* end, the component gets to a non-empty device list and an Active session,
\* unless it is torn down first.
C20_ListFailureRecoverable ==
  (primePc = "failed" /\ ~cancelled) ~> (cancelled \/ ActiveWithDevices)

\* What the rendered controls allow after a failed initial enumeration: the
\* list stays empty, no session is ever constructed and both controls stay
\* disabled (an invariant of SpecUI).
C20_DeadEnd ==
  primePc = "failed"
    => /\ devices = <<>>
       /\ sessions = <<>>
       /\ ~isScanning
       /\ selectDisabled
       /\ cancelled \/ toggleDisabled

\* ------------------------------------------------------------ remoteLog
Calls == 1..Len(records)

\* The positions of the event e in what call i did.
At(i, e) == { k \in 1..Len(records[i].events) : records[i].events[k] = e }

NetworkAt(i) == At(i, "sendBeacon") \cup At(i, "fetch")

C22_ConsoleFirst ==
  \A i \in Calls :
    /\ Cardinality(At(i, "console:formatted")) = 1
    /\ \A k \in NetworkAt(i) : \A c \in At(i, "console:formatted") : c < k

\* A call whose beacon returned false and whose fetch was rejected: the line
\* came first.
C22_Witness ==
  \E i \in Calls :
    /\ records[i].fetch = "rejected"
    /\ records[i].events =
         << "console:formatted", "sendBeacon", "console:beaconFalse",
            "fetch", "console:fetchFailed" >>

\* C23: where navigator.sendBeacon exists it is the first delivery attempt,
\* and fetch is attempted exactly when sendBeacon does not exist or returned
\* false (so never after it returned true).
C23_BeaconThenFetch ==
  \A i \in Calls :
    /\ records[i].beacon # "absent"
         => /\ At(i, "sendBeacon") # {}
            /\ \A b \in At(i, "sendBeacon") : \A f \in At(i, "fetch") : b < f
    /\ records[i].beacon = "absent" => At(i, "sendBeacon") = {}
    /\ At(i, "fetch") # {} <=> records[i].beacon \in {"absent", "false"}

\* The beacon returned false and the fetch that followed was accepted.
C23_Witness ==
  \E i \in Calls :
    /\ records[i].beacon = "false"
    /\ records[i].fetch = "resolved"
    /\ At(i, "sendBeacon") # {}
    /\ At(i, "fetch") # {}

\* The primitives that accepted the record of call i.
AcceptedBy(i) ==
  (IF records[i].beacon = "true" THEN {"sendBeacon"} ELSE {})
    \cup (IF records[i].fetch = "resolved" THEN {"fetch"} ELSE {})

\* C24: one remoteLog call makes at most one sendBeacon attempt and at most
\* one fetch attempt, its record is accepted by at most one of the two, no
\* exception leaves it, and after its fetch failed (threw, or was rejected
\* later) nothing more is attempted for it: the failure is only logged.
C24_AtMostOnce ==
  \A i \in Calls :
    /\ Cardinality(At(i, "sendBeacon")) <= 1
    /\ Cardinality(At(i, "fetch")) <= 1
    /\ Cardinality(AcceptedBy(i)) <= 1
    /\ ~records[i].threw
    /\ records[i].fetch = "rejected"
         => records[i].events[Len(records[i].events)] = "console:fetchFailed"
    /\ \A k \in At(i, "console:sendError") \cup At(i, "console:fetchFailed") :
         \A n \in NetworkAt(i) : n < k

\* The fetch fallback of a call was rejected and that was the end of it.
C24_Witness ==
  \E i \in Calls :
    /\ records[i].beacon = "absent"
    /\ records[i].fetch = "rejected"
    /\ records[i].events =
         << "console:formatted", "fetch", "console:fetchFailed" >>

\* C25: in one browsing session the client id is generated once: every page
\* load, also after a load that could not store the id, has the id of the
\* first load as its CLIENT_ID, and every record carries it.
C25_ClientIdNeverRegenerated ==
  /\ idsCreated = 1
  /\ CLIENT_ID = 1
  /\ \A i \in Calls : records[i].clientId = 1

\* C26: in the step that constructs a ScannerService, stop() has been
\* invoked on every session constructed before it; and a step that changes
\* the session ref away from a session has invoked stop() on that session.
C26_StopBeforeReplace ==
  [][ /\ Len(sessions') > Len(sessions)
           => \A s \in SessionIds : sessions'[s].stopInvoked
      /\ (scannerServiceRef # NoSession
            /\ scannerServiceRef' # scannerServiceRef)
           => sessions'[scannerServiceRef].stopInvoked ]_vars

\* A device change made in the Error state has stopped the session the
\* failure had left in the ref and constructed the second one.
C26_Witness ==
  /\ lastCall.op = "deviceChange"
  /\ lastCall.outcome = "started"
  /\ lastCall.sess = 1
  /\ sessions[1].stopInvoked
  /\ Len(sessions) = 2
  /\ scannerServiceRef = 2
  /\ ~sessions[2].stopInvoked

\* Session s holds an open stream and either the step before was a stop call
\* that stopped it, or it is the session in the ref, which a start stops
\* first.
ReleaseOwed(s) ==
  /\ sessions[s].streamOpen
  /\ \/ lastCall = Call("stop", Undefined, "stopped") /\ sessions[s].stopInvoked
     \/ scannerServiceRef = s

\* C27: where the library's release of a stopped session is asynchronous, a
\* step that constructs a new ScannerService and begins its acquisition finds
\* the release of the session stopped before it complete: that session's
\* stream is no longer open.
C27_ReleaseObservedBeforeStart ==
  [][ Len(sessions') > Len(sessions)
        => \A s \in SessionIds :
             ReleaseOwed(s) => ~sessions'[s].streamOpen ]_vars

\* A step in which session s reports a failure: its pending start rejects or
\* its error callback fires.
FailureReportedBy(s) ==
  \/ StartRejected(s)
  \/ lastCall'.op = "onError" /\ lastCall'.sess = s

\* C28: a failure reported by a session that is no longer the one in the ref
\* (it was stopped or superseded) leaves the current session alone: while a
\* newer session is held and the scanning flag is set, the flag stays set.
C28_LateFailureIgnored ==
  [][ \A s \in SessionIds :
        ( /\ FailureReportedBy(s)
          /\ s # scannerServiceRef
          /\ scannerServiceRef # NoSession
          /\ isScanning )
          => isScanning' ]_vars

\* The device id a start with the argument arg is to use: the argument if one
\* is given, else the selected id, else the first catalog entry's id; None
\* when none of the three yields one.
EffectiveDeviceId(arg) ==
  IF arg # Undefined THEN arg
  ELSE IF selectedDeviceId # "" THEN selectedDeviceId
  ELSE IF Len(devices) > 0 THEN devices[1].deviceId
  ELSE None

\* C29: a start call that is not the no-op of a scanning controller fails
\* with 'no device available' exactly when no effective device id exists,
\* and otherwise builds its options with the effective device id.
C29_EffectiveDeviceId ==
  [][ (lastCall'.op = "start" /\ ~isScanning)
        => /\ lastCall'.outcome = "noDevice"
                <=> EffectiveDeviceId(lastCall'.arg) = None
           /\ lastCall'.outcome \in {"started", "ctorThrew"}
                => optionsDeviceId' = EffectiveDeviceId(lastCall'.arg) ]_vars

\* C30: once the initial enumeration has produced a device on a mounted
\* component, the automatic start is issued, with no other step needed
\* before it; it is issued at most once, and with the selected device id or,
\* when none is selected, the first device's id.
C30_AutoStartEventually ==
  /\ (primePc = "done" /\ Len(devices) > 0 /\ ~cancelled) ~> (autoStarts = 1)
  /\ [](autoStarts <= 1)
  /\ [][ lastCall'.op = "autoStart"
           => /\ lastCall'.arg = IF selectedDeviceId # ""
                                   THEN selectedDeviceId
                                   ELSE devices[1].deviceId
              /\ lastCall'.outcome \in {"started", "ctorThrew"}
              /\ autoStarts = 0 /\ sessions = <<>> ]_vars

\* The automatic start has just been issued with the first device's id and
\* its acquisition is pending.
C30_Witness ==
  /\ autoStarts = 1
  /\ lastCall.op = "autoStart"
  /\ lastCall.outcome = "started"
  /\ lastCall.arg = devices[1].deviceId
  /\ optionsDeviceId = devices[1].deviceId
  /\ Len(sessions) = 1
  /\ sessions[1].phase = "acquiring"
  /\ ~cancelled

\* ---------------------------------------------------------------- C31
\* The step in which the post-start re-enumeration of session s answers,
\* with a list or with a failure.
RefreshStep(s) == Refreshing(s) /\ sessions'[s].phase = "returned"

\* C31: the post-start refresh replaces at most the device list.  The step
\* in which it answers leaves the selected device id as it was, whatever the
\* new list holds, and starts or stops no session: the held reference, the
\* number of sessions, every session's stop and stream flags and the
\* scanning flag are unchanged.
C31_RefreshReplacesOnlyTheList ==
  [][ \A s \in SessionIds :
        RefreshStep(s) =>
          /\ selectedDeviceId' = selectedDeviceId
          /\ scannerServiceRef' = scannerServiceRef
          /\ isScanning' = isScanning
          /\ Len(sessions') = Len(sessions)
          /\ \A t \in SessionIds :
               /\ sessions'[t].stopInvoked = sessions[t].stopInvoked
               /\ sessions'[t].streamOpen = sessions[t].streamOpen ]_vars

\* The refresh of the automatically started, never stopped session has
\* answered with a list that has lost cam1: the list is replaced and the
\* selection still names cam1.
C31_Witness ==
  /\ autoStarts = 1
  /\ Len(sessions) = 1
  /\ sessions[1].phase = "returned"
  /\ ~sessions[1].stopInvoked
  /\ isScanning
  /\ scannerServiceRef = 1
  /\ lastCall = Async
  /\ selectedDeviceId = "cam1"
  /\ devices = << Dev("cam9", "Back") >>

\* ---------------------------------------------------------------- C32
\* C32: a remoteLog call whose sendBeacon raised an exception has still
\* attempted the fetch fallback, after the beacon, and no exception has left
\* the call.
C32_BeaconThrowsFallsBack ==
  \A i \in Calls :
    records[i].beacon = "throws"
      => /\ ~records[i].threw
         /\ At(i, "fetch") # {}
         /\ \A b \in At(i, "sendBeacon") : \A f \in At(i, "fetch") : b < f

\* ---------------------------------------------------------------- C33
\* C33: in every state between two steps of the mounted component, a set
\* scanning flag comes with a held session: isScanning is never true while
\* scannerServiceRef is empty, also after a start whose ScannerService
\* constructor threw.
C33_ScanningImpliesSessionHeld ==
  (~cancelled /\ isScanning) => scannerServiceRef # NoSession

\* A start has replaced the instance that an earlier failure left in the
\* ref: the flag is set and the ref holds the new session, whose
\* acquisition is pending.
C33_Witness ==
  /\ ~cancelled
  /\ isScanning
  /\ lastCall.op = "start"
  /\ lastCall.outcome = "started"
  /\ lastCall.sess # NoSession
  /\ scannerServiceRef # NoSession
  /\ scannerServiceRef # lastCall.sess
  /\ Pending(scannerServiceRef)

\* ---------------------------------------------------------------- C34
\* The requests whose 'end' event has been handled.
Ended == { i \in 1..Len(requests) :
             requests[i].method = "POST" /\ requests[i].pc = "done" }

\* JSON.parse accepts the text.
WellFormed(body) == JSONparse(body).kind # "SyntaxError"

\* C34: a POST to /log is answered exactly once when its body has ended and
\* not before; the answer is {status: 'logged'} for every well-formed JSON
\* body, whose printed line has the default in the place of every absent
\* field, and the client error only for a malformed body; a request with
\* another method is handed to next() and gets no answer here.
C34_OneResponsePerPost ==
  \A i \in 1..Len(requests) :
    LET r == requests[i] IN
    /\ r.method # "POST" => (r.passedOn /\ r.responses = << >>)
    /\ r.method = "POST" => ~r.passedOn
    /\ (r.method = "POST" /\ r.pc = "receiving") => r.responses = << >>
    /\ i \in Ended =>
         /\ Len(r.responses) = 1
         /\ r.responses[1] \in {Logged, InvalidJSON}
         /\ WellFormed(r.body) =>
              /\ r.responses[1] = Logged
              /\ \A k \in Keys :
                   members(r.body)[k] = Undefined
                     => r.console[1].line[k] = Defaults[k]
         /\ r.responses[1] = InvalidJSON => ~WellFormed(r.body)

====
